---- MODULE Spec2Model ----
(***************************************************************************)
(* FileCompressor (src/src/FileCompressor.js): an in-memory ZIP encoder    *)
(* on top of the browser's CompressionStream('deflate').                   *)
(*                                                                         *)
(* Bytes are naturals 0..255, buffers are sequences of bytes (index 1 is   *)
(* byte offset 0).  A 32-bit value that may exceed 2^31 (a CRC-32, an      *)
(* Adler-32, a header signature) is a Word: its four bytes, least          *)
(* significant first.  JavaScript's ToInt32/ToUint32 reinterpret the same  *)
(* 32 bits, so on Words ">>> 0" is the identity and "^" is bitwise.        *)
(***************************************************************************)
EXTENDS Integers, Sequences, FiniteSets, TLC

VARIABLES pc, input, i, parts, centralHeaders, adler32Map, offset,
          stream, reader, result, buffers, invoked, failedAt,
          crcArg, crcReg, crcIdx, crcRet

vars == <<pc, input, i, parts, centralHeaders, adler32Map, offset,
          stream, reader, result, buffers, invoked, failedAt,
          crcArg, crcReg, crcIdx, crcRet>>

crcVars == <<crcArg, crcReg, crcIdx, crcRet>>

buildVars == <<pc, input, i, parts, centralHeaders, adler32Map, offset,
               stream, reader, result, buffers, invoked, failedAt>>

\* Longest array of files handed to compress.
MaxFiles == 2
\* Longest byte sequence handed to #calculateCRC32 on its own.
MaxLen == 3

(***************************************************************************)
(* Bit and byte arithmetic                                                 *)
(***************************************************************************)
RECURSIVE BitXor(_, _)
BitXor(a, b) ==
  IF a = 0 THEN b
  ELSE IF b = 0 THEN a
  ELSE ((a + b) % 2) + 2 * BitXor(a \div 2, b \div 2)

\* x ^ y on 32-bit values.
WXor(x, y) == <<BitXor(x[1], y[1]), BitXor(x[2], y[2]),
                BitXor(x[3], y[3]), BitXor(x[4], y[4])>>

\* x >>> 1
WShr1(x) == <<(x[1] \div 2) + (x[2] % 2) * 128,
              (x[2] \div 2) + (x[3] % 2) * 128,
              (x[3] \div 2) + (x[4] % 2) * 128,
              x[4] \div 2>>

\* x >>> 8
WShr8(x) == <<x[2], x[3], x[4], 0>>

\* The 32-bit value of a natural below 2^31.
U32(n) == <<n % 256, (n \div 256) % 256, (n \div 65536) % 256,
            (n \div 16777216) % 256>>

Zeros(n) == [k \in 1..n |-> 0]

RECURSIVE Concat(_)
Concat(ss) == IF ss = <<>> THEN <<>> ELSE Head(ss) \o Concat(Tail(ss))

RECURSIVE SumLen(_)
SumLen(ss) == IF ss = <<>> THEN 0 ELSE Len(Head(ss)) + SumLen(Tail(ss))

(***************************************************************************)
(* DataView writers, TextEncoder, ArrayBuffer.slice                        *)
(***************************************************************************)
\* view.setUint16(offset, value, true): the low 16 bits, little-endian.
writeUint16(view, off, value) ==
  [view EXCEPT ![off + 1] = (value % 65536) % 256,
               ![off + 2] = (value % 65536) \div 256]

\* view.setUint32(offset, value, true): value is a Word.
writeUint32(view, off, value) ==
  [view EXCEPT ![off + 1] = value[1], ![off + 2] = value[2],
               ![off + 3] = value[3], ![off + 4] = value[4]]

\* new Uint8Array(buffer, off).set(bytes)
setBytes(view, off, bytes) ==
  SubSeq(view, 1, off) \o bytes \o SubSeq(view, off + Len(bytes) + 1, Len(view))

\* One code point as UTF-8.
Utf8(c) ==
  IF c < 128 THEN <<c>>
  ELSE IF c < 2048 THEN <<192 + (c \div 64), 128 + (c % 64)>>
  ELSE <<224 + (c \div 4096), 128 + ((c \div 64) % 64), 128 + (c % 64)>>

\* new TextEncoder().encode(filename): a name is a sequence of code points.
RECURSIVE encodeFilename(_)
encodeFilename(filename) ==
  IF filename = <<>> THEN <<>>
  ELSE Utf8(Head(filename)) \o encodeFilename(Tail(filename))

\* buffer.slice(begin, end): bytes at offsets begin .. end-1.
slice(buf, begin, end) == SubSeq(buf, begin + 1, end)

(***************************************************************************)
(* #calculateCRC32                                                         *)
(***************************************************************************)
\* 0xEDB88320
Poly == <<\h20, \h83, \hB8, \hED>>

AllOnes == <<255, 255, 255, 255>>

\* The inner loop that fills crcTable[i]: 8 times
\* crc = (crc & 1) ? (crc >>> 1) ^ 0xEDB88320 : crc >>> 1.
RECURSIVE crcTableLoop(_, _)
crcTableLoop(crc, j) ==
  IF j = 8 THEN crc
  ELSE IF crc[1] % 2 = 1 THEN crcTableLoop(WXor(WShr1(crc), Poly), j + 1)
  ELSE crcTableLoop(WShr1(crc), j + 1)

\* crcTable[i]
crcTable(idx) == crcTableLoop(U32(idx), 0)

\* let crc = 0xFFFFFFFF
crcInit == AllOnes

\* crc = (crc >>> 8) ^ crcTable[(crc ^ bytes[i]) & 0xFF]
crcStep(crc, byte) ==
  WXor(WShr8(crc), crcTable(WXor(crc, U32(byte))[1]))

\* The register returned as it is, without the final xor.
crcFinalNoXor(crc) == crc

\* return (crc ^ 0xFFFFFFFF) >>> 0
crcFinal(crc) == WXor(crc, AllOnes)

RECURSIVE crcLoop(_, _, _)
crcLoop(crc, bytes, k) ==
  IF k > Len(bytes) THEN crc
  ELSE crcLoop(crcStep(crc, bytes[k]), bytes, k + 1)

calculateCRC32(data) == crcFinal(crcLoop(crcInit, data, 1))

(***************************************************************************)
(* CompressionStream('deflate'): the external transform.  A conforming     *)
(* one emits a zlib stream (RFC 1950): 2-byte header 78 xx, a raw deflate  *)
(* stream (RFC 1951, here one final stored block), the Adler-32 of the     *)
(* input big-endian.  The builder also has a branch for output that is not *)
(* zlib-wrapped, so the other outputs below exercise it.                   *)
(***************************************************************************)
RECURSIVE AdlerLoop(_, _, _, _)
AdlerLoop(data, k, a, b) ==
  IF k > Len(data) THEN <<a, b>>
  ELSE AdlerLoop(data, k + 1, (a + data[k]) % 65521,
                 (b + ((a + data[k]) % 65521)) % 65521)

\* Adler-32 of data, as the 4 trailer bytes (big-endian).
AdlerTrailer(data) ==
  LET ab == AdlerLoop(data, 1, 1, 0)
  IN <<ab[2] \div 256, ab[2] % 256, ab[1] \div 256, ab[1] % 256>>

\* Raw deflate: one final stored block (BFINAL=1, BTYPE=00, LEN, NLEN, data).
RawDeflate(data) ==
  <<1, Len(data) % 256, Len(data) \div 256,
    255 - (Len(data) % 256), 255 - (Len(data) \div 256)>> \o data

ZlibDeflate(data) == <<\h78, 1>> \o RawDeflate(data) \o AdlerTrailer(data)

\* What the transform may emit for data: the zlib stream; a raw deflate
\* stream; a 5-byte and a 6-byte output that start with 0x78.
CompressorOutputs(data) ==
  {ZlibDeflate(data), RawDeflate(data), <<\h78, 1, 2, 3, 4>>,
   <<\h78, 1, 0, 0, 0, 7>>}

\* The transform hands its output over in chunks: the first SplitPoint bytes
\* when the input chunk is transformed, the rest when the stream is flushed.
SplitPoints(w) == {s \in {0, 2} : s <= Len(w)}

NoStream ==
  [w |-> <<>>, split |-> 0, write |-> "none", close |-> "none",
   rq |-> <<>>, rclosed |-> FALSE, errored |-> FALSE]

NoReader == [state |-> "idle", chunks |-> <<>>]

NoResult == [state |-> "none", type |-> "", bytes |-> <<>>]

(***************************************************************************)
(* Inputs                                                                  *)
(***************************************************************************)
\* File names as code points: "a" and "b" + U+00E9 (3 bytes in UTF-8).
NameSet == {<<97>>, <<98, 233>>}

\* File contents: "" and "hi".
DataSet == {<<>>, <<104, 105>>}

FileSet == [name : NameSet, data : DataSet]

RECURSIVE SeqsUpTo(_, _)
SeqsUpTo(S, n) ==
  IF n = 0 THEN {<<>>}
  ELSE LET shorter == SeqsUpTo(S, n - 1)
       IN shorter \cup {Append(q, x) : q \in {r \in shorter : Len(r) = n - 1},
                                       x \in S}

FileLists == SeqsUpTo(FileSet, MaxFiles)

(***************************************************************************)
(* Per-entry pieces of #createZipFromFiles                                 *)
(***************************************************************************)
\* The length test as "> 6".
IsWrappedGt(buf) == Len(buf) > 6 /\ buf[1] = \h78

\* compressedView.length >= 6 && compressedView[0] === 0x78
IsWrapped(buf) == Len(buf) >= 6 /\ buf[1] = \h78

\* new DataView(buf, byteLength - 4).getUint32(0, false)
extractAdler32(buf) ==
  LET n == Len(buf) IN <<buf[n], buf[n - 1], buf[n - 2], buf[n - 3]>>

\* The compressor output stored as it is, wrapper included.
stripNothing(buf) == buf

\* The stored bytes of an entry: compressedData.

strip(buf) ==
  IF IsWrapped(buf) THEN slice(buf, 2, Len(buf) - 4) ELSE buf

\* adler32Map.set(file.name, adler32), only in the wrapped branch.
mapAfter(map, name, buf) ==
  IF IsWrapped(buf)
  THEN [n \in DOMAIN map \cup {name} |->
          IF n = name THEN extractAdler32(buf) ELSE map[n]]
  ELSE map

\* adler32Map.get(file.name) || 0
mapGet(map, name) == IF name \in DOMAIN map THEN map[name] ELSE U32(0)

HexChar(d) == IF d < 10 THEN 48 + d ELSE 87 + d

RECURSIVE DropLeadingZeros(_)
DropLeadingZeros(ds) ==
  IF Len(ds) > 1 /\ Head(ds) = 0 THEN DropLeadingZeros(Tail(ds)) ELSE ds

\* value.toString(16) as character codes (lowercase, no leading zeros).
toString16(value) ==
  LET nibbles == <<value[4] \div 16, value[4] % 16, value[3] \div 16,
                   value[3] % 16, value[2] \div 16, value[2] % 16,
                   value[1] \div 16, value[1] % 16>>
      ds == DropLeadingZeros(nibbles)
  IN [k \in 1..Len(ds) |-> HexChar(ds[k])]

\* s.padStart(n, '0')
padStart(s, n) ==
  IF Len(s) >= n THEN s ELSE [k \in 1..(n - Len(s)) |-> 48] \o s

\* new TextEncoder().encode(adler32.toString(16).padStart(8, '0'))
commentOf(adler32) == padStart(toString16(adler32), 8)

localHeaderOf(filenameBytes, crc32, compressedSize, uncompressedSize) ==
  LET v0 == Zeros(30 + Len(filenameBytes))
      v1 == writeUint32(v0, 0, U32(67324752))      \* 0x04034b50
      v2 == writeUint16(v1, 4, 20)
      v3 == writeUint16(v2, 6, 0)
      v4 == writeUint16(v3, 8, 8)
      v5 == writeUint16(v4, 10, 0)
      v6 == writeUint32(v5, 14, crc32)
      v7 == writeUint32(v6, 18, U32(compressedSize))
      v8 == writeUint32(v7, 22, U32(uncompressedSize))
      v9 == writeUint16(v8, 26, Len(filenameBytes))
      v10 == writeUint16(v9, 28, 0)
  IN setBytes(v10, 30, filenameBytes)

centralHeaderOf(filenameBytes, commentBytes, crc32, compressedSize, uncompressedSize, off) ==
  LET v0 == Zeros(46 + Len(filenameBytes) + Len(commentBytes))
      v1 == writeUint32(v0, 0, U32(33639248))      \* 0x02014b50
      v2 == writeUint16(v1, 4, 20)
      v3 == writeUint16(v2, 6, 20)
      v4 == writeUint16(v3, 8, 0)
      v5 == writeUint16(v4, 10, 8)
      v6 == writeUint16(v5, 12, 0)
      v7 == writeUint16(v6, 14, 0)
      v8 == writeUint32(v7, 16, crc32)
      v9 == writeUint32(v8, 20, U32(compressedSize))
      v10 == writeUint32(v9, 24, U32(uncompressedSize))
      v11 == writeUint16(v10, 28, Len(filenameBytes))
      v12 == writeUint16(v11, 30, 0)
      v13 == writeUint16(v12, 32, Len(commentBytes))
      v14 == writeUint16(v13, 34, 0)
      v15 == writeUint16(v14, 36, 0)
      v16 == writeUint32(v15, 38, U32(0))
      v17 == writeUint32(v16, 42, U32(off))
      v18 == setBytes(v17, 46, filenameBytes)
  IN setBytes(v18, 46 + Len(filenameBytes), commentBytes)

endOfCentralDirOf(count, centralDirSize, centralDirStart) ==
  LET v0 == Zeros(22)
      v1 == writeUint32(v0, 0, U32(101010256))     \* 0x06054b50
      v2 == writeUint16(v1, 4, 0)
      v3 == writeUint16(v2, 6, 0)
      v4 == writeUint16(v3, 8, count)
      v5 == writeUint16(v4, 10, count)
      v6 == writeUint32(v5, 12, U32(centralDirSize))
      v7 == writeUint32(v6, 16, U32(centralDirStart))
  IN writeUint16(v7, 20, 0)

\* The offset advanced by the header alone.
nextOffsetNoData(off, localHeaderSize, compressedSize) == off + localHeaderSize

\* offset += localHeaderSize + compressedSize

nextOffset(off, localHeaderSize, compressedSize) ==
  off + localHeaderSize + compressedSize

(***************************************************************************)
(* State machine                                                           *)
(*   pc: idle -> loop -> write -> close -> read -> loop ... -> resolved    *)
(*       idle -> single -> singleRead -> resolved;   any await -> rejected *)
(***************************************************************************)
CurFile == input.files[i]

Init ==
  /\ pc = "idle"
  /\ input = [isArray |-> TRUE, files |-> <<>>]
  /\ i = 1
  /\ parts = <<>>
  /\ centralHeaders = <<>>
  /\ adler32Map = <<>>
  /\ offset = 0
  /\ stream = NoStream
  /\ reader = NoReader
  /\ result = NoResult
  /\ buffers = <<>>
  /\ invoked = <<>>
  /\ failedAt = 0
  /\ crcArg = <<>>
  /\ crcReg = crcInit
  /\ crcIdx = 1
  /\ crcRet = <<>>

\* compress(files) with an array: enters #createZipFromFiles.
CompressArray ==
  /\ pc = "idle"
  /\ \E fs \in FileLists :
       /\ input' = [isArray |-> TRUE, files |-> fs]
       /\ invoked' = [k \in 1..Len(fs) |-> 0]
  /\ pc' = "loop"
  /\ i' = 1
  /\ parts' = <<>>
  /\ centralHeaders' = <<>>
  /\ adler32Map' = <<>>
  /\ offset' = 0
  /\ UNCHANGED <<stream, reader, result, buffers, failedAt, crcVars>>

\* compress(file) with a single File: enters #compressSingleFile.
CompressSingle ==
  /\ pc = "idle"
  /\ \E f \in FileSet : input' = [isArray |-> FALSE, files |-> <<f>>]
  /\ invoked' = <<0>>
  /\ pc' = "single"
  /\ UNCHANGED <<i, parts, centralHeaders, adler32Map, offset, stream, reader,
                 result, buffers, failedAt, crcVars>>

\* #streamToBlob not called before writer.write is awaited.
ReaderLate == "idle"

\* State of the #streamToBlob call when the stream has just been created:
\* readPromise is started before writer.write, so a read is already pending.

ReaderOnCreate == "reading"

\* A new CompressionStream whose single input chunk is being written.
NewStream(w, s) ==
  [w |-> w, split |-> s, write |-> "pending", close |-> "none",
   rq |-> <<>>, rclosed |-> FALSE, errored |-> FALSE]

\* Loop body up to "await writer.write(...)".
BeginEntry ==
  /\ pc = "loop"
  /\ i <= Len(input.files)
  /\ \E w \in CompressorOutputs(CurFile.data) :
       \E s \in SplitPoints(w) : stream' = NewStream(w, s)
  /\ reader' = [state |-> ReaderOnCreate, chunks |-> <<>>]
  /\ invoked' = [invoked EXCEPT ![i] = @ + 1]
  /\ pc' = "write"
  /\ UNCHANGED <<input, i, parts, centralHeaders, adler32Map, offset, result,
                 buffers, failedAt, crcVars>>

\* #compressSingleFile: file.stream().pipeThrough(new CompressionStream(..))
\* and the #streamToBlob call on the result.
BeginSingle ==
  /\ pc = "single"
  /\ \E w \in CompressorOutputs(CurFile.data) :
       \E s \in SplitPoints(w) : stream' = NewStream(w, s)
  /\ reader' = [state |-> ReaderOnCreate, chunks |-> <<>>]
  /\ invoked' = [invoked EXCEPT ![1] = @ + 1]
  /\ pc' = "singleRead"
  /\ UNCHANGED <<input, i, parts, centralHeaders, adler32Map, offset, result,
                 buffers, failedAt, crcVars>>

\* The transform takes the written chunk.  Its readable side starts with
\* backpressure on (high-water mark 0) and lifts it only for a pending read.
Transform ==
  /\ stream.write = "pending"
  /\ ~stream.errored
  /\ reader.state = "reading"
  /\ stream' = [stream EXCEPT
                  !.write = "done",
                  !.rq = IF stream.split > 0
                         THEN Append(@, SubSeq(stream.w, 1, stream.split))
                         ELSE @]
  /\ UNCHANGED <<pc, input, i, parts, centralHeaders, adler32Map, offset,
                 reader, result, buffers, invoked, failedAt, crcVars>>

\* The stream errors: the pending write, close and read all reject.
ErrorStream ==
  /\ stream' = [stream EXCEPT !.errored = TRUE]
  /\ reader' = [reader EXCEPT
                  !.state = IF @ = "reading" THEN "failed" ELSE @]
  /\ failedAt' = i
  /\ UNCHANGED <<pc, input, i, parts, centralHeaders, adler32Map, offset,
                 result, buffers, invoked, crcVars>>

\* writer.write rejects.
TransformFail ==
  /\ stream.write = "pending"
  /\ ~stream.errored
  /\ ErrorStream

\* "await writer.write" resumes; writer.close() is called.
WriteResolved ==
  /\ pc = "write"
  /\ stream.write = "done"
  /\ ~stream.errored
  /\ stream' = [stream EXCEPT !.close = "pending"]
  /\ pc' = "close"
  /\ UNCHANGED <<input, i, parts, centralHeaders, adler32Map, offset, reader,
                 result, buffers, invoked, failedAt, crcVars>>

\* pipeThrough closes the writable once the file's stream has ended.
PipeClose ==
  /\ pc = "singleRead"
  /\ stream.write = "done"
  /\ stream.close = "none"
  /\ ~stream.errored
  /\ stream' = [stream EXCEPT !.close = "pending"]
  /\ UNCHANGED <<pc, input, i, parts, centralHeaders, adler32Map, offset,
                 reader, result, buffers, invoked, failedAt, crcVars>>

\* The transform flushes the rest of its output and closes its readable.
Flush ==
  /\ stream.close = "pending"
  /\ ~stream.errored
  /\ stream' = [stream EXCEPT
                  !.close = "done",
                  !.rclosed = TRUE,
                  !.rq = IF stream.split < Len(stream.w)
                         THEN Append(@, SubSeq(stream.w, stream.split + 1,
                                               Len(stream.w)))
                         ELSE @]
  /\ UNCHANGED <<pc, input, i, parts, centralHeaders, adler32Map, offset,
                 reader, result, buffers, invoked, failedAt, crcVars>>

\* writer.close rejects.
FlushFail ==
  /\ stream.close = "pending"
  /\ ~stream.errored
  /\ ErrorStream

\* "await writer.close" resumes; "await readPromise" is next.
CloseResolved ==
  /\ pc = "close"
  /\ stream.close = "done"
  /\ ~stream.errored
  /\ pc' = "read"
  /\ UNCHANGED <<input, i, parts, centralHeaders, adler32Map, offset, stream,
                 reader, result, buffers, invoked, failedAt, crcVars>>

\* #streamToBlob: reader.read() yields a chunk, which is pushed.
ReaderRead ==
  /\ reader.state = "reading"
  /\ ~stream.errored
  /\ stream.rq # <<>>
  /\ reader' = [reader EXCEPT !.chunks = Append(@, Head(stream.rq))]
  /\ stream' = [stream EXCEPT !.rq = Tail(@)]
  /\ UNCHANGED <<pc, input, i, parts, centralHeaders, adler32Map, offset,
                 result, buffers, invoked, failedAt, crcVars>>

\* #streamToBlob: reader.read() yields done; the Blob of the chunks is made.
ReaderDone ==
  /\ reader.state = "reading"
  /\ ~stream.errored
  /\ stream.rq = <<>>
  /\ stream.rclosed
  /\ reader' = [reader EXCEPT !.state = "done"]
  /\ UNCHANGED <<pc, input, i, parts, centralHeaders, adler32Map, offset,
                 stream, result, buffers, invoked, failedAt, crcVars>>

\* #streamToBlob: reader.read() rejects; the error is logged and rethrown.
ReadFail ==
  /\ reader.state = "reading"
  /\ ~stream.errored
  /\ ~(stream.rclosed /\ stream.rq = <<>>)
  /\ ErrorStream

\* A Blob of the first chunk only.
blobOfFirstChunk(chunks) ==
  [state |-> "blob", type |-> "",
   bytes |-> IF chunks = <<>> THEN <<>> ELSE Head(chunks)]

\* new Blob(chunks): the chunks' bytes in order, no MIME type.

blobOf(chunks) == [state |-> "blob", type |-> "", bytes |-> Concat(chunks)]

\* The fixed part of every header only.
centralDirSizeFixed(headers) == 46 * Len(headers)

\* centralHeaders.reduce((sum, h) => sum + h.byteLength, 0)

centralDirSizeOf(headers) == SumLen(headers)

\* The central headers put in front of the local blocks.
allPartsCentralFirst(ps, headers, eocd) == headers \o ps \o <<eocd>>

\* parts after parts.push(...centralHeaders) and parts.push(endOfCentralDir).

allParts(ps, headers, eocd) == ps \o headers \o <<eocd>>

\* "await readPromise" resumes with the Blob; the rest of the loop body runs:
\* the wrapper is stripped, both headers are built, offset advances.
FinishEntry ==
  /\ pc = "read"
  /\ reader.state = "done"
  /\ LET compressedDataBuffer == blobOf(reader.chunks).bytes
         filenameBytes == encodeFilename(CurFile.name)
         crc32 == calculateCRC32(CurFile.data)
         compressedData == strip(compressedDataBuffer)
         compressedSize == Len(compressedData)
         uncompressedSize == Len(CurFile.data)
         localHeaderSize == 30 + Len(filenameBytes)
         localHeader == localHeaderOf(filenameBytes, crc32, compressedSize,
                                      uncompressedSize)
         map2 == mapAfter(adler32Map, CurFile.name, compressedDataBuffer)
         commentBytes == commentOf(mapGet(map2, CurFile.name))
         centralHeader == centralHeaderOf(filenameBytes, commentBytes, crc32,
                                          compressedSize, uncompressedSize,
                                          offset)
     IN /\ parts' = parts \o <<localHeader, compressedData>>
        /\ adler32Map' = map2
        /\ centralHeaders' = Append(centralHeaders, centralHeader)
        /\ offset' = nextOffset(offset, localHeaderSize, compressedSize)
  /\ buffers' = Append(buffers, stream.w)
  /\ i' = i + 1
  /\ pc' = "loop"
  /\ stream' = NoStream
  /\ reader' = NoReader
  /\ UNCHANGED <<input, result, invoked, failedAt, crcVars>>

\* A failed entry is skipped and the loop goes on.
RejectSwallow ==
  /\ pc \in {"write", "close", "read", "singleRead"}
  /\ stream.errored
  /\ pc' = IF pc = "singleRead" THEN "rejected" ELSE "loop"
  /\ i' = IF pc = "singleRead" THEN i ELSE i + 1
  /\ stream' = NoStream
  /\ reader' = NoReader
  /\ UNCHANGED <<input, parts, centralHeaders, adler32Map, offset, result,
                 buffers, invoked, failedAt, crcVars>>

\* The awaited promise rejects: the catch block logs and rethrows, and the
\* promise compress returned rejects.
Reject ==
  /\ pc \in {"write", "close", "read", "singleRead"}
  /\ stream.errored
  /\ pc' = "rejected"
  /\ UNCHANGED <<input, i, parts, centralHeaders, adler32Map, offset, stream,
                 reader, result, buffers, invoked, failedAt, crcVars>>

\* After the loop: the central directory and the end record are appended and
\* the Blob is returned.
Finalize ==
  /\ pc = "loop"
  /\ i > Len(input.files)
  /\ LET centralDirStart == offset
         centralDirSize == centralDirSizeOf(centralHeaders)
         endOfCentralDir == endOfCentralDirOf(Len(input.files), centralDirSize,
                                              centralDirStart)
     IN /\ parts' = allParts(parts, centralHeaders, endOfCentralDir)
        /\ result' = [state |-> "blob", type |-> "application/zip",
                      bytes |-> Concat(parts')]
  /\ pc' = "resolved"
  /\ UNCHANGED <<input, i, centralHeaders, adler32Map, offset, stream, reader,
                 buffers, invoked, failedAt, crcVars>>

\* #compressSingleFile returns what #streamToBlob returned.
SingleResolved ==
  /\ pc = "singleRead"
  /\ reader.state = "done"
  /\ result' = blobOf(reader.chunks)
  /\ pc' = "resolved"
  /\ UNCHANGED <<input, i, parts, centralHeaders, adler32Map, offset, stream,
                 reader, buffers, invoked, failedAt, crcVars>>

NextOK ==
  \/ CompressArray
  \/ CompressSingle
  \/ BeginEntry
  \/ BeginSingle
  \/ Transform
  \/ WriteResolved
  \/ PipeClose
  \/ Flush
  \/ CloseResolved
  \/ ReaderRead
  \/ ReaderDone
  \/ FinishEntry
  \/ Finalize
  \/ SingleResolved

Next ==
  \/ NextOK
  \/ TransformFail
  \/ FlushFail
  \/ ReadFail
  \/ Reject

Spec == Init /\ [][Next]_vars

\* NextOK without FinishEntry, and FinishEntry seen through pc alone: under
\* NextOK the only step from pc = "read" to pc = "loop" is FinishEntry, which
\* is enabled exactly when the Blob has been read.
NextStream ==
  \/ CompressArray
  \/ CompressSingle
  \/ BeginEntry
  \/ BeginSingle
  \/ Transform
  \/ WriteResolved
  \/ PipeClose
  \/ Flush
  \/ CloseResolved
  \/ ReaderRead
  \/ ReaderDone
  \/ Finalize
  \/ SingleResolved

FinishEntryStep == pc = "read" /\ reader.state = "done" /\ pc' = "loop"

\* The transform never fails and every step that is ready is eventually taken
\* (the event loop runs every continuation and stream callback that is ready).
LiveSpec ==
  Init /\ [][NextOK]_vars /\ WF_vars(NextStream) /\ WF_pc(FinishEntryStep)

(***************************************************************************)
(* #calculateCRC32 on its own                                              *)
(***************************************************************************)
CrcBytes == {0, 1, \h78, \hFF}

\* "123456789"
CheckVector == <<49, 50, 51, 52, 53, 54, 55, 56, 57>>

CrcInputs == SeqsUpTo(CrcBytes, MaxLen) \cup {CheckVector}

InitCRC ==
  /\ pc = "crc"
  /\ input = [isArray |-> TRUE, files |-> <<>>]
  /\ i = 1
  /\ parts = <<>>
  /\ centralHeaders = <<>>
  /\ adler32Map = <<>>
  /\ offset = 0
  /\ stream = NoStream
  /\ reader = NoReader
  /\ result = NoResult
  /\ buffers = <<>>
  /\ invoked = <<>>
  /\ failedAt = 0
  /\ crcArg \in CrcInputs
  /\ crcReg = crcInit
  /\ crcIdx = 1
  /\ crcRet = <<>>

\* One iteration of the loop over the bytes.
CrcByte ==
  /\ pc = "crc"
  /\ crcIdx <= Len(crcArg)
  /\ crcReg' = crcStep(crcReg, crcArg[crcIdx])
  /\ crcIdx' = crcIdx + 1
  /\ UNCHANGED <<buildVars, crcArg, crcRet>>

\* The loop has ended: the register is complemented and returned.
CrcReturn ==
  /\ pc = "crc"
  /\ crcIdx > Len(crcArg)
  /\ crcRet' = crcFinal(crcReg)
  /\ pc' = "crcDone"
  /\ UNCHANGED <<input, i, parts, centralHeaders, adler32Map, offset, stream,
                 reader, result, buffers, invoked, failedAt, crcArg, crcReg,
                 crcIdx>>

\* The build, together with #calculateCRC32 applied on its own to every
\* input of CrcInputs.
SpecCRC == (Init \/ InitCRC) /\ [][Next \/ CrcByte \/ CrcReturn]_vars

(***************************************************************************)
(* Reference definitions the claims are stated with: the CRC-32 of         *)
(* ISO 3309 bit by bit, the zlib and ZIP readers (the tests read the       *)
(* results back with DecompressionStream('deflate') and unzipper).         *)
(***************************************************************************)
\* x^32+x^26+x^23+x^22+x^16+x^12+x^11+x^10+x^8+x^7+x^5+x^4+x^2+x+1, reflected:
\* the coefficient of x^e is bit 31-e.
PolyBits == {31 - e : e \in {0, 1, 2, 4, 5, 7, 8, 10, 11, 12, 16, 22, 23, 26}}

\* Bit q of the register after one input bit.  A register is its 32 bits,
\* bit 0 first: shift right, and xor the polynomial in when the feedback
\* (bit 0 xor the input bit) is set.
RefNext(reg, fb, q) ==
  ((IF q < 31 THEN reg[q + 2] ELSE 0) + (IF fb /\ q \in PolyBits THEN 1 ELSE 0)) % 2

RefShift(reg, fb) ==
  <<RefNext(reg, fb, 0), RefNext(reg, fb, 1), RefNext(reg, fb, 2), RefNext(reg, fb, 3),
    RefNext(reg, fb, 4), RefNext(reg, fb, 5), RefNext(reg, fb, 6), RefNext(reg, fb, 7),
    RefNext(reg, fb, 8), RefNext(reg, fb, 9), RefNext(reg, fb, 10), RefNext(reg, fb, 11),
    RefNext(reg, fb, 12), RefNext(reg, fb, 13), RefNext(reg, fb, 14), RefNext(reg, fb, 15),
    RefNext(reg, fb, 16), RefNext(reg, fb, 17), RefNext(reg, fb, 18), RefNext(reg, fb, 19),
    RefNext(reg, fb, 20), RefNext(reg, fb, 21), RefNext(reg, fb, 22), RefNext(reg, fb, 23),
    RefNext(reg, fb, 24), RefNext(reg, fb, 25), RefNext(reg, fb, 26), RefNext(reg, fb, 27),
    RefNext(reg, fb, 28), RefNext(reg, fb, 29), RefNext(reg, fb, 30), RefNext(reg, fb, 31)>>

RefBit(reg, bit) == RefShift(reg, reg[1] # bit)

\* The eight bits of a byte, least significant first.
RefByte(reg, byte) ==
  LET r1 == RefBit(reg, byte % 2)
      r2 == RefBit(r1, (byte \div 2) % 2)
      r3 == RefBit(r2, (byte \div 4) % 2)
      r4 == RefBit(r3, (byte \div 8) % 2)
      r5 == RefBit(r4, (byte \div 16) % 2)
      r6 == RefBit(r5, (byte \div 32) % 2)
      r7 == RefBit(r6, (byte \div 64) % 2)
  IN RefBit(r7, (byte \div 128) % 2)

RECURSIVE RefBytes(_, _, _)
RefBytes(reg, bytes, k) ==
  IF Len(reg) # 32 \/ k > Len(bytes) THEN reg
  ELSE RefBytes(RefByte(reg, bytes[k]), bytes, k + 1)

\* The byte of the complemented register that starts at bit base.
RECURSIVE BitsValue(_, _, _)
BitsValue(reg, base, j) ==
  IF j = 8 THEN 0
  ELSE (1 - reg[base + j + 1]) * (2 ^ j) + BitsValue(reg, base, j + 1)

\* The reference CRC-32 of bytes, as a Word: register all ones, every bit of
\* every byte least significant first, then the complement.
RefCRC32(bytes) ==
  LET reg == RefBytes([q \in 1..32 |-> 1], bytes, 1)
  IN <<BitsValue(reg, 0, 0), BitsValue(reg, 8, 0), BitsValue(reg, 16, 0),
       BitsValue(reg, 24, 0)>>

LE16At(b, off) == b[off + 1] + 256 * b[off + 2]

\* A 32-bit little-endian field below 2^31.
LE32At(b, off) ==
  b[off + 1] + 256 * b[off + 2] + 65536 * b[off + 3] + 16777216 * b[off + 4]

WordAt(b, off) == SubSeq(b, off + 1, off + 4)

LocalSig == <<80, 75, 3, 4>>
CentralSig == <<80, 75, 1, 2>>
EndSig == <<80, 75, 5, 6>>

\* Inverse of raw deflate for a stream of one final stored block.
Inflate(raw) ==
  IF /\ Len(raw) >= 5
     /\ raw[1] = 1
     /\ raw[2] + raw[4] = 255
     /\ raw[3] + raw[5] = 255
     /\ Len(raw) = 5 + LE16At(raw, 1)
  THEN [ok |-> TRUE, data |-> SubSeq(raw, 6, Len(raw))]
  ELSE [ok |-> FALSE, data |-> <<>>]

\* Inverse of the zlib stream: header check, inflate, Adler-32 check.
ZlibInflate(w) ==
  IF /\ Len(w) >= 6
     /\ w[1] = 120
     /\ (w[1] * 256 + w[2]) % 31 = 0
     /\ Inflate(SubSeq(w, 3, Len(w) - 4)).ok
     /\ SubSeq(w, Len(w) - 3, Len(w))
          = AdlerTrailer(Inflate(SubSeq(w, 3, Len(w) - 4)).data)
  THEN Inflate(SubSeq(w, 3, Len(w) - 4))
  ELSE [ok |-> FALSE, data |-> <<>>]

\* UTF-8 bytes back to code points (1- to 3-byte forms).
RECURSIVE Utf8Decode(_)
Utf8Decode(b) ==
  IF b = <<>> THEN <<>>
  ELSE IF b[1] < 128 THEN <<b[1]>> \o Utf8Decode(Tail(b))
  ELSE IF b[1] < 224 /\ Len(b) >= 2
       THEN <<(b[1] - 192) * 64 + (b[2] - 128)>> \o Utf8Decode(SubSeq(b, 3, Len(b)))
  ELSE IF Len(b) >= 3
       THEN <<(b[1] - 224) * 4096 + (b[2] - 128) * 64 + (b[3] - 128)>>
            \o Utf8Decode(SubSeq(b, 4, Len(b)))
  ELSE <<65533>>

BadEntry == [ok |-> FALSE, name |-> <<>>, data |-> <<>>]

\* Offsets of end records: a signature 22 + commentLength bytes before the end.
EndRecordOffsets(b) ==
  {p \in 0..(Len(b) - 22) :
     /\ WordAt(b, p) = EndSig
     /\ p + 22 + LE16At(b, p + 20) = Len(b)}

\* One file read through the central header at offset cpos.
ReadEntry(b, cpos) ==
  IF cpos + 46 > Len(b) \/ WordAt(b, cpos) # CentralSig THEN BadEntry
  ELSE
    LET method == LE16At(b, cpos + 10)
        crc == WordAt(b, cpos + 16)
        csize == LE32At(b, cpos + 20)
        usize == LE32At(b, cpos + 24)
        nlen == LE16At(b, cpos + 28)
        lpos == LE32At(b, cpos + 42)
    IN IF lpos + 30 > Len(b) \/ WordAt(b, lpos) # LocalSig THEN BadEntry
       ELSE
         LET dpos == lpos + 30 + LE16At(b, lpos + 26) + LE16At(b, lpos + 28)
             raw == SubSeq(b, dpos + 1, dpos + csize)
             inf == Inflate(raw)
         IN IF /\ method = 8
               /\ dpos + csize <= Len(b)
               /\ inf.ok
               /\ Len(inf.data) = usize
               /\ RefCRC32(inf.data) = crc
            THEN [ok |-> TRUE,
                  name |-> Utf8Decode(SubSeq(b, cpos + 47, cpos + 46 + nlen)),
                  data |-> inf.data]
            ELSE BadEntry

CentralLen(b, cpos) ==
  46 + LE16At(b, cpos + 28) + LE16At(b, cpos + 30) + LE16At(b, cpos + 32)

RECURSIVE ReadEntries(_, _, _)
ReadEntries(b, cpos, n) ==
  IF n = 0 THEN <<>>
  ELSE IF cpos + 46 > Len(b) THEN <<BadEntry>>
  ELSE <<ReadEntry(b, cpos)>> \o ReadEntries(b, cpos + CentralLen(b, cpos), n - 1)

\* The files of an archive: end record, central directory, local headers.
ReadZip(b) ==
  IF EndRecordOffsets(b) = {} THEN <<BadEntry>>
  ELSE LET e == CHOOSE p \in EndRecordOffsets(b) :
                  \A q \in EndRecordOffsets(b) : q <= p
       IN ReadEntries(b, LE32At(b, e + 16), LE16At(b, e + 10))

(***************************************************************************)
(* Claims                                                                  *)
(***************************************************************************)
Files == input.files
NFiles == Len(input.files)
NameBytes(k) == encodeFilename(Files[k].name)

\* The claims' zlib detection and its two results, on a compressor output w.
Detected(w) == Len(w) >= 6 /\ w[1] = 120
ExpectedStored(w) == IF Detected(w) THEN SubSeq(w, 3, Len(w) - 4) ELSE w
ExpectedAdler(w) ==
  IF Detected(w) THEN <<w[Len(w)], w[Len(w) - 1], w[Len(w) - 2], w[Len(w) - 3]>>
  ELSE <<0, 0, 0, 0>>

\* A Word as 8 lowercase hex digits, most significant first.
Hex8(v) ==
  LET d(n) == IF n < 10 THEN 48 + n ELSE 97 + (n - 10)
  IN <<d(v[4] \div 16), d(v[4] % 16), d(v[3] \div 16), d(v[3] % 16),
       d(v[2] \div 16), d(v[2] % 16), d(v[1] \div 16), d(v[1] % 16)>>

\* Sum over the entries before k of 30 + nameLen + compressedSize.
RECURSIVE BlocksBefore(_)
BlocksBefore(k) ==
  IF k <= 1 THEN 0
  ELSE BlocksBefore(k - 1) + 30 + Len(NameBytes(k - 1))
       + Len(ExpectedStored(buffers[k - 1]))

\* Every entry of the build was compressed to the zlib stream of its data.
AllZlib == \A k \in 1..Len(buffers) : buffers[k] = ZlibDeflate(Files[k].data)

ArrayDone == pc = "resolved" /\ input.isArray

\* C1: an archive built from an array, with the transform emitting the zlib
\* stream of each payload, reads back (end record, central directory, local
\* headers, inflate) as exactly the input files: same count, order, names, data.
C1_RoundTrip ==
  (ArrayDone /\ AllZlib) =>
    ReadZip(result.bytes)
      = [k \in 1..NFiles |->
           [ok |-> TRUE, name |-> Files[k].name, data |-> Files[k].data]]

C1_Witness ==
  /\ ArrayDone /\ AllZlib /\ NFiles = 2
  /\ Files[1].name # Files[2].name
  /\ Files[1].data # <<>>

\* C2: compress dispatches on Array.isArray: an array (of any length) goes
\* through the archive builder and resolves to a ZIP tagged application/zip;
\* a single payload resolves to exactly the bytes the transform emitted, with
\* no MIME type, and those inflate back to the payload when it is a zlib stream.
C2_Dispatch ==
  /\ pc \in {"loop", "write", "close", "read"} => input.isArray
  /\ pc \in {"single", "singleRead"} => ~input.isArray
  /\ ArrayDone =>
       /\ result.type = "application/zip"
       /\ Len(ReadZip(result.bytes)) = NFiles
       /\ WordAt(result.bytes, Len(result.bytes) - 22) = EndSig
  /\ (pc = "resolved" /\ ~input.isArray) =>
       /\ result.type = ""
       /\ result.bytes = stream.w
       /\ stream.w = ZlibDeflate(Files[1].data) =>
            ZlibInflate(result.bytes) = [ok |-> TRUE, data |-> Files[1].data]

C2_Witness ==
  /\ pc = "resolved" /\ ~input.isArray
  /\ stream.w = ZlibDeflate(Files[1].data)
  /\ stream.split = 2
  /\ Files[1].data # <<>>

\* C3: the local-header offset recorded in central header k is the sum over
\* the entries before k of 30 + nameLen + compressedSize, and it is where
\* entry k's local header really starts in the output.
C3_Offsets ==
  input.isArray =>
    \A k \in 1..Len(centralHeaders) :
      /\ LE32At(centralHeaders[k], 42) = BlocksBefore(k)
      /\ LE32At(centralHeaders[k], 42) = SumLen(SubSeq(parts, 1, 2 * (k - 1)))
      /\ pc = "resolved" =>
           LET at == LE32At(centralHeaders[k], 42)
           IN /\ WordAt(result.bytes, at) = LocalSig
              /\ SubSeq(result.bytes, at + 31, at + 30 + Len(NameBytes(k)))
                   = NameBytes(k)

C3_Witness ==
  /\ ArrayDone /\ NFiles = 2
  /\ Len(Files[1].name) # Len(NameBytes(1))
  /\ LE32At(centralHeaders[2], 42) > 33

\* C4: in the end record, centralDirStart is the total length of all local
\* header + data blocks (0 for the empty array) and centralDirSize is the sum
\* of the central headers' lengths, each 46 + nameLen + commentLen.
RECURSIVE CentralLenSum(_)
CentralLenSum(k) ==
  IF k = 0 THEN 0
  ELSE CentralLenSum(k - 1) + 46 + Len(NameBytes(k))
       + LE16At(centralHeaders[k], 32)

C4_EndRecord ==
  ArrayDone =>
    LET e == Len(result.bytes) - 22
    IN /\ LE32At(result.bytes, e + 16) = BlocksBefore(NFiles + 1)
       /\ LE32At(result.bytes, e + 16) = SumLen(SubSeq(parts, 1, 2 * NFiles))
       /\ LE32At(result.bytes, e + 12) = CentralLenSum(NFiles)
       /\ LE32At(result.bytes, e + 12) = SumLen(centralHeaders)
       /\ e = LE32At(result.bytes, e + 16) + LE32At(result.bytes, e + 12)

C4_Witness == ArrayDone /\ NFiles = 2 /\ Files[1].name # Files[2].name

\* C5: once the transform has failed for entry k of an array build, no archive
\* is ever returned, the error reaches the caller (the call is rejected or the
\* rejection is the pending step), no entry after k is given to a compressor
\* and no entry is compressed twice.
C5_FailureAborts ==
  /\ \A j \in 1..Len(invoked) : invoked[j] <= 1
  /\ (failedAt # 0 /\ input.isArray) =>
       /\ pc # "resolved"
       /\ result = NoResult
       /\ pc = "rejected" \/ ENABLED Reject
       /\ \A j \in 1..Len(invoked) : j > failedAt => invoked[j] = 0
       /\ Len(buffers) = failedAt - 1

C5_Witness ==
  /\ pc = "rejected" /\ input.isArray /\ NFiles = 2
  /\ failedAt = 2 /\ invoked = <<1, 1>>
  /\ Len(parts) = 2 /\ result = NoResult

\* C6: #calculateCRC32 agrees with the bit-by-bit reference CRC-32 on every
\* byte sequence, gives 0 for the empty one and 0xCBF43926 for "123456789";
\* both headers of an entry carry the CRC-32 of the entry's uncompressed data
\* (read whenever the loop is between two entries or the archive is returned).
C6_Crc32 ==
  /\ pc = "crc" => crcFinal(crcReg) = RefCRC32(SubSeq(crcArg, 1, crcIdx - 1))
  /\ pc = "crcDone" =>
       /\ crcRet = RefCRC32(crcArg)
       /\ crcArg = <<>> => crcRet = <<0, 0, 0, 0>>
       /\ crcArg = CheckVector => crcRet = <<\h26, \h39, \hF4, \hCB>>
  /\ pc \in {"loop", "resolved"} =>
       \A k \in 1..Len(centralHeaders) :
         /\ WordAt(parts[2 * k - 1], 14) = RefCRC32(Files[k].data)
         /\ WordAt(centralHeaders[k], 16) = RefCRC32(Files[k].data)

C6_Witness == pc = "crcDone" /\ crcArg = CheckVector

\* C7: the data stored for an entry is its compressor output w without the
\* first 2 and last 4 bytes when w has at least 6 bytes and starts with 0x78,
\* and w itself otherwise; the Adler-32 taken is w's last 4 bytes big-endian;
\* compressedSize in both headers is the length of the stored data.
C7_Reframe ==
  input.isArray =>
    \A k \in 1..Len(buffers) :
      /\ parts[2 * k] = ExpectedStored(buffers[k])
      /\ LE32At(parts[2 * k - 1], 18) = Len(parts[2 * k])
      /\ LE32At(centralHeaders[k], 20) = Len(parts[2 * k])
      /\ (k = Len(buffers) /\ Detected(buffers[k])) =>
           /\ Files[k].name \in DOMAIN adler32Map
           /\ adler32Map[Files[k].name] = ExpectedAdler(buffers[k])

C7_Witness ==
  /\ input.isArray /\ Len(buffers) = 2
  /\ buffers[1] = <<120, 1, 0, 0, 0, 7>>
  /\ buffers[2] = <<120, 1, 2, 3, 4>>

\* The comment of central header k.
CommentOf(k) ==
  SubSeq(centralHeaders[k], 47 + Len(NameBytes(k)), Len(centralHeaders[k]))

\* C8: the comment of every entry's central header is the 8-digit lowercase
\* hex of the Adler-32 taken from that entry's own compressor output,
\* "00000000" when that output was not detected as zlib-wrapped; the
\* comment-length field is 8.
C8_CommentIsOwnAdler ==
  input.isArray =>
    \A k \in 1..Len(centralHeaders) :
      /\ LE16At(centralHeaders[k], 32) = 8
      /\ CommentOf(k) = Hex8(ExpectedAdler(buffers[k]))

\* C9: a read of the transform's output is pending whenever its input is being
\* written; with a transform that never fails and fair scheduling, every
\* entry's write, close and drain complete and the build returns.
C9_Terminates ==
  /\ [](stream.write = "pending" => reader.state = "reading")
  /\ [](pc = "write" => <>(pc = "close"))
  /\ [](pc = "close" => <>(pc = "read"))
  /\ [](pc = "read" => <>(pc = "loop"))
  /\ <>(pc = "resolved")

C9_Witness ==
  /\ pc = "write" /\ i = 2
  /\ stream.write = "pending" /\ reader.state = "reading"

\* Whether b holds, from offset pos on, the local blocks of entries k..NFiles,
\* then the central headers of entries 1..NFiles, then one end record that
\* ends b.
RECURSIVE CentralsFrom(_, _, _)
CentralsFrom(b, pos, k) ==
  IF k > NFiles
  THEN pos + 22 = Len(b) /\ WordAt(b, pos) = EndSig
  ELSE /\ pos + 46 <= Len(b)
       /\ WordAt(b, pos) = CentralSig
       /\ WordAt(b, pos + 16) = RefCRC32(Files[k].data)
       /\ LE32At(b, pos + 20) = Len(ExpectedStored(buffers[k]))
       /\ LE32At(b, pos + 24) = Len(Files[k].data)
       /\ LE16At(b, pos + 28) = Len(NameBytes(k))
       /\ SubSeq(b, pos + 47, pos + 46 + Len(NameBytes(k))) = NameBytes(k)
       /\ CentralsFrom(b, pos + CentralLen(b, pos), k + 1)

RECURSIVE LocalsFrom(_, _, _)
LocalsFrom(b, pos, k) ==
  IF k > NFiles THEN CentralsFrom(b, pos, 1)
  ELSE LET nlen == Len(NameBytes(k))
           stored == ExpectedStored(buffers[k])
       IN /\ pos + 30 <= Len(b)
          /\ WordAt(b, pos) = LocalSig
          /\ WordAt(b, pos + 14) = RefCRC32(Files[k].data)
          /\ LE32At(b, pos + 18) = Len(stored)
          /\ LE32At(b, pos + 22) = Len(Files[k].data)
          /\ LE16At(b, pos + 26) = nlen
          /\ LE16At(b, pos + 28) = 0
          /\ SubSeq(b, pos + 31, pos + 30 + nlen) = NameBytes(k)
          /\ SubSeq(b, pos + 31 + nlen, pos + 30 + nlen + Len(stored)) = stored
          /\ LocalsFrom(b, pos + 30 + nlen + Len(stored), k + 1)

\* C10: a returned archive is, in order, each entry's local header and stored
\* data in input order, then one central header per entry in input order, then
\* one 22-byte end record as the last bytes; the k-th local block and the k-th
\* central header carry entry k's name, crc32 and sizes.
C10_Layout == ArrayDone => LocalsFrom(result.bytes, 0, 1)

C10_Witness ==
  /\ ArrayDone /\ NFiles = 2
  /\ Files[1] # Files[2]
  /\ buffers[1] # buffers[2]

====
